---- MODULE Spec2Model ----
(***************************************************************************)
(* Model of the Concerto ResourceValidator (concerto-core, serializer) as  *)
(* exercised by test/serializer/resourcevalidator.js, and of the class     *)
(* declaration comparers of concerto-analysis.                             *)
(*                                                                         *)
(* The validator is a visitor: a declaration (class, enum, field or        *)
(* relationship) accepts the validator with a value on the typed stack.    *)
(* A call either returns (possibly after normalising identifiers of the    *)
(* value in place) or throws one violation.                                *)
(***************************************************************************)
EXTENDS Integers, Sequences, FiniteSets, TLC

VARIABLES
    modelFiles,   \* namespaces currently held by the model manager
    carAbstract,  \* TRUE once org.acme.l3 was replaced by abstractLevelThreeModel
    options,      \* the validator's options
    stack,        \* the value on the typed stack (after a call: as the call left it)
    call,         \* the last accept call: thing, value before, root, outcome
    prev,         \* the accept call before the last one
    ncalls,       \* number of accept calls made
    pair,         \* the class declarations (a, b) under comparison
    ran,          \* the comparers that were given the pair
    reports       \* what the comparers reported through context.report

comparison == <<pair, ran, reports>>
vars == <<modelFiles, carAbstract, options, stack, call, prev, ncalls, pair, ran, reports>>

(***************************************************************************)
(* Bounds of the exploration.                                              *)
(***************************************************************************)
MaxCalls == 2
MaxDeleted == 1

(***************************************************************************)
(* Declaration graph: the CTO models the tests load.                       *)
(***************************************************************************)
NoSuper == "none"
NoId == "none"

F(name, type, isArray, isOptional, kind) ==
    [name |-> name, type |-> type, isArray |-> isArray, isOptional |-> isOptional,
     isPrimitive |-> kind = "primitive", isEnum |-> kind = "enum",
     isRelationship |-> kind = "relationship"]

C(ns, short, super, abstract, isConcept, idField, own) ==
    [ns |-> ns, short |-> short, name |-> ns \o "." \o short, super |-> super,
     abstract |-> abstract, isConcept |-> isConcept, idField |-> idField,
     isEnum |-> FALSE, own |-> own]

E(ns, short, literals) ==
    [ns |-> ns, short |-> short, name |-> ns \o "." \o short, isEnum |-> TRUE,
     literals |-> literals]

enumModelString ==
    <<E("org.acme.enumerations", "AnimalType", <<"SHEEP_GOAT", "CATTLE", "PIG", "DEER_OTHER">>)>>

levelOneModel ==
    <<E("org.acme.l1", "VehicleType", <<"CAR", "TRUCK", "SUV", "MOTORBIKE">>),
      C("org.acme.l1", "Base", NoSuper, FALSE, FALSE, "id",
        <<F("id", "String", FALSE, FALSE, "primitive")>>),
      C("org.acme.l1", "Person", NoSuper, FALSE, FALSE, "ssn",
        <<F("ssn", "String", FALSE, FALSE, "primitive")>>),
      C("org.acme.l1", "Employee", "org.acme.l1.Person", FALSE, FALSE, "ssn", <<>>),
      C("org.acme.l1", "Data", NoSuper, FALSE, TRUE, NoId,
        <<F("name", "String", FALSE, FALSE, "primitive")>>)>>

levelTwoModel ==
    <<C("org.acme.l2", "Vehicle", "org.acme.l1.Base", FALSE, FALSE, "id",
        <<F("numberOfWheels", "Integer", FALSE, FALSE, "primitive"),
          F("milage", "Double", FALSE, FALSE, "primitive")>>),
      C("org.acme.l2", "PrivateOwner", "org.acme.l1.Person", FALSE, FALSE, "ssn",
        <<F("employeeId", "String", FALSE, FALSE, "primitive")>>)>>

levelThreeModel ==
    <<C("org.acme.l3", "TestConcept", NoSuper, FALSE, TRUE, NoId,
        <<F("name", "String", FALSE, FALSE, "primitive")>>),
      C("org.acme.l3", "Car", "org.acme.l2.Vehicle", FALSE, FALSE, "id",
        <<F("model", "String", FALSE, FALSE, "primitive"),
          F("serviceHistory", "String", TRUE, TRUE, "primitive"),
          F("vehicleTypes", "org.acme.l1.VehicleType", TRUE, TRUE, "enum"),
          F("owner", "org.acme.l1.Person", FALSE, TRUE, "relationship"),
          F("owners", "org.acme.l1.Person", TRUE, TRUE, "relationship"),
          F("containment", "org.acme.l1.Person", TRUE, TRUE, "class"),
          F("singlePerson", "org.acme.l1.Person", FALSE, TRUE, "class")>>)>>

abstractLevelThreeModel ==
    <<C("org.acme.l3", "Car", "org.acme.l2.Vehicle", TRUE, FALSE, "id",
        <<F("model", "String", FALSE, FALSE, "primitive")>>)>>

\* A further model file over the same types, so that fields exist whose
\* declared type has both a supertype and transitive subtypes.
levelFourModel ==
    <<C("org.acme.l4", "Garage", NoSuper, FALSE, FALSE, "gid",
        <<F("gid", "String", FALSE, FALSE, "primitive"),
          F("kind", "org.acme.l1.VehicleType", FALSE, TRUE, "enum"),
          F("any", "org.acme.l1.Base", FALSE, TRUE, "relationship"),
          F("fleet", "org.acme.l2.Vehicle", TRUE, TRUE, "relationship"),
          F("parked", "org.acme.l2.Vehicle", FALSE, TRUE, "class"),
          F("stored", "org.acme.l1.Base", TRUE, TRUE, "class"),
          F("info", "org.acme.l1.Data", FALSE, TRUE, "class")>>)>>

Range(s) == {s[i] : i \in DOMAIN s}

Namespaces == {"org.acme.enumerations", "org.acme.l1", "org.acme.l2", "org.acme.l3", "org.acme.l4"}

\* every declaration the model manager holds in the current state
Declarations ==
    {d \in Range(enumModelString) \cup Range(levelOneModel) \cup Range(levelTwoModel)
           \cup Range(levelFourModel)
           \cup (IF carAbstract THEN Range(abstractLevelThreeModel) ELSE Range(levelThreeModel)) :
        d.ns \in modelFiles}

\* every type name an instance may carry
TypeNames ==
    {d.name : d \in Range(enumModelString) \cup Range(levelOneModel) \cup Range(levelTwoModel)
                    \cup Range(levelThreeModel) \cup Range(levelFourModel)}

NamespaceOf(name) ==
    CHOOSE ns \in Namespaces :
        \E d \in Range(enumModelString) \cup Range(levelOneModel) \cup Range(levelTwoModel)
                 \cup Range(levelThreeModel) \cup Range(levelFourModel) :
            d.name = name /\ d.ns = ns

(***************************************************************************)
(* Runtime values.  A typed value carries its props in insertion order     *)
(* (Object.getOwnPropertyNames) and, apart from them, its $identifier.     *)
(***************************************************************************)
Undefined == [k |-> "undefined"]
Str(s) == [k |-> "string", s |-> s]
Num(s) == [k |-> "number", s |-> s, finite |-> TRUE]
NaN == [k |-> "number", s |-> "NaN", finite |-> FALSE]
Bool(s) == [k |-> "boolean", s |-> s]
Date(s) == [k |-> "date", s |-> s]
Arr(items) == [k |-> "array", items |-> items]
Typed(kind, type, identifier, props) ==
    [k |-> kind, type |-> type, identifier |-> identifier, props |-> props]
P(name, val) == [name |-> name, val |-> val]

IsTyped(v) == v.k \in {"Resource", "Concept", "Relationship"}
IsIdentifiable(v) == v.k \in {"Resource", "Relationship"}

PropNames(v) == {v.props[i].name : i \in DOMAIN v.props}

Get(v, name) ==
    IF name \in PropNames(v)
    THEN (CHOOSE pr \in Range(v.props) : pr.name = name).val
    ELSE Undefined

\* obj[name] = val: an existing property keeps its place, a new one is appended
Put(v, name, val) ==
    IF name \in PropNames(v)
    THEN [v EXCEPT !.props = [i \in DOMAIN v.props |->
                                 IF v.props[i].name = name THEN P(name, val) ELSE v.props[i]]]
    ELSE [v EXCEPT !.props = Append(v.props, P(name, val))]

getFullyQualifiedIdentifier(v) == v.type \o "#" \o v.identifier

\* typeof, or the fully qualified type of a typed value
typeOf(v) ==
    CASE IsTyped(v) -> v.type
      [] v.k \in {"array", "date"} -> "object"
      [] OTHER -> v.k

\* the rendering of a value in a message
render(v) ==
    CASE v.k = "undefined" -> "undefined"
      [] v.k \in {"string", "number", "boolean", "date"} -> v.s
      [] v.k = "array" -> "[...]"
      [] v.k = "Resource" -> "Resource {id=" \o getFullyQualifiedIdentifier(v) \o "}"
      [] v.k = "Relationship" -> "Relationship {id=" \o getFullyQualifiedIdentifier(v) \o "}"
      [] OTHER -> "Concept {" \o v.type \o "}"

(***************************************************************************)
(* Outcomes: Ok, or the one violation thrown.                              *)
(***************************************************************************)
Violation(kind, root, name, value, actual, expected) ==
    [kind |-> kind, root |-> root, name |-> name, value |-> value,
     actual |-> actual, expected |-> expected]

Ok == Violation("ok", "", "", "", "", "")

\* result of a visit: the outcome, the value as the visit left it, the parameters
R(out, v, p) == [out |-> out, v |-> v, p |-> p]

(***************************************************************************)
(* Type resolver (the model manager).                                      *)
(***************************************************************************)
Resolves(name) == \E d \in Declarations : d.name = name

getType(name) == CHOOSE d \in Declarations : d.name = name

TypeNotFound(name) ==
    Violation("TypeNotFound", "", name, NamespaceOf(name), "", "")

RECURSIVE getProperties(_)
\* mutant: the properties of the super types come first
getPropertiesSuperFirst(d) ==
    IF d.super = NoSuper THEN [ok |-> TRUE, fields |-> d.own, missing |-> ""]
    ELSE IF ~Resolves(d.super) THEN [ok |-> FALSE, fields |-> d.own, missing |-> d.super]
    ELSE [ok |-> getProperties(getType(d.super)).ok,
          fields |-> getProperties(getType(d.super)).fields \o d.own,
          missing |-> getProperties(getType(d.super)).missing]

\* own properties first, then those of the super types; fails on a missing super type
getProperties(d) ==
    IF d.super = NoSuper THEN [ok |-> TRUE, fields |-> d.own, missing |-> ""]
    ELSE IF ~Resolves(d.super) THEN [ok |-> FALSE, fields |-> d.own, missing |-> d.super]
    ELSE LET r == getProperties(getType(d.super))
         IN  [r EXCEPT !.fields = d.own \o r.fields]

\* is the type of declaration d the type `target` or derived from it
RECURSIVE isAssignableTo(_, _)
isAssignableTo(d, target) ==
    IF d.name = target THEN [ok |-> TRUE, result |-> TRUE, missing |-> ""]
    ELSE IF d.super = NoSuper THEN [ok |-> TRUE, result |-> FALSE, missing |-> ""]
    ELSE IF ~Resolves(d.super) THEN [ok |-> FALSE, result |-> FALSE, missing |-> d.super]
    ELSE isAssignableTo(getType(d.super), target)

\* the expected type in a message
expectedType(f) == IF f.isArray THEN f.type \o "[]" ELSE f.type

(***************************************************************************)
(* The validation visitor.  Every visit takes the declaration, the value   *)
(* popped from the stack and the parameters p (rootResourceIdentifier,     *)
(* currentIdentifier, nested) and returns R(outcome, value, parameters).   *)
(***************************************************************************)
IsEmpty(id) == id = Undefined \/ (id.k = "string" /\ id.s = "")

\* mutant: every string is taken for a literal of the enum
visitEnumDeclarationOfAnyString(enumDeclaration, obj, p) ==
    IF obj.k = "string"
    THEN R(Ok, obj, p)
    ELSE R(Violation("InvalidEnumValue", p.root, enumDeclaration.short, render(obj), "", ""),
           obj, p)

\* enum membership of a value
visitEnumDeclaration(enumDeclaration, obj, p) ==
    IF obj.k = "string" /\ obj.s \in Range(enumDeclaration.literals)
    THEN R(Ok, obj, p)
    ELSE R(Violation("InvalidEnumValue", p.root, enumDeclaration.short, render(obj), "", ""),
           obj, p)

\* the result r of a visit of item n of the array obj, as a result for the array
InArray(obj, n, r) == R(r.out, [obj EXCEPT !.items[n] = r.v], r.p)

\* the result r of a visit of property `name` of obj, as a result for obj
InObject(obj, name, r) ==
    R(r.out, [obj EXCEPT !.props = [i \in DOMAIN obj.props |->
                 IF obj.props[i].name = name THEN P(name, r.v) ELSE obj.props[i]]], r.p)

RECURSIVE checkEnumItems(_, _, _, _)
RECURSIVE thenEnumItems(_, _, _, _)
checkEnumItems(enumDeclaration, obj, n, p) ==
    IF n > Len(obj.items) THEN R(Ok, obj, p)
    ELSE thenEnumItems(enumDeclaration, obj, n,
                       visitEnumDeclaration(enumDeclaration, obj.items[n], p))

thenEnumItems(enumDeclaration, obj, n, r) ==
    IF r.out # Ok THEN InArray(obj, n, r)
    ELSE checkEnumItems(enumDeclaration, obj, n + 1, r.p)

checkEnum(obj, field, p) ==
    IF field.isArray /\ obj.k # "array"
    THEN R(Violation("TypeMismatch", p.root, field.name, render(obj), typeOf(obj),
                     expectedType(field)), obj, p)
    ELSE IF ~Resolves(field.type) THEN R(TypeNotFound(field.type), obj, p)
    ELSE IF field.isArray THEN checkEnumItems(getType(field.type), obj, 1, p)
    ELSE visitEnumDeclaration(getType(field.type), obj, p)

\* does the runtime shape of obj fail to match the primitive type
PrimitiveInvalid(type, obj) ==
    CASE type = "String" -> obj.k # "string"
      [] type \in {"Double", "Long", "Integer"} -> obj.k # "number" \/ ~obj.finite
      [] type = "Boolean" -> obj.k # "boolean"
      [] type = "DateTime" -> obj.k # "date"
      [] OTHER -> TRUE

\* mutant: a Resource is taken for a Relationship whatever the options are
RelationshipShapeOkOfResource(obj) == obj.k \in {"Relationship", "Resource"}

\* a Relationship is accepted, a Resource only under one of the two options
RelationshipShapeOk(obj) ==
    \/ obj.k = "Relationship"
    \/ /\ obj.k = "Resource"
       /\ (options.convertResourcesToRelationships \/ options.permitResourcesForRelationships)

\* the outcome of the assignability check a of a value of type `actual` to a field
Assignability(a, p, field, actual) ==
    IF ~a.ok THEN TypeNotFound(a.missing)
    ELSE IF ~a.result
    THEN Violation("RelationshipTypeMismatch", p.root, field.name, "", actual,
                   expectedType(field))
    ELSE Ok

\* mutant: the type of the value is never compared with the declared type
checkRelationshipAnyType(p, relationshipDeclaration, obj) ==
    IF ~RelationshipShapeOk(obj)
    THEN R(Violation("NotARelationship", p.root, relationshipDeclaration.type, render(obj),
                     "", "Relationship"), obj, p)
    ELSE IF ~Resolves(obj.type) THEN R(TypeNotFound(obj.type), obj, p)
    ELSE R(Ok, obj, p)

\* mutant: under convertResourcesToRelationships a Resource is replaced, in
\* the value, by a Relationship to it
checkRelationshipConverting(p, relationshipDeclaration, obj) ==
    IF ~RelationshipShapeOk(obj)
    THEN R(Violation("NotARelationship", p.root, relationshipDeclaration.type, render(obj),
                     "", "Relationship"), obj, p)
    ELSE IF ~Resolves(obj.type) THEN R(TypeNotFound(obj.type), obj, p)
    ELSE R(Assignability(isAssignableTo(getType(obj.type), relationshipDeclaration.type),
                         p, relationshipDeclaration, obj.type),
           IF obj.k = "Resource" /\ options.convertResourcesToRelationships
           THEN Typed("Relationship", obj.type, obj.identifier, <<>>) ELSE obj, p)

checkRelationship(p, relationshipDeclaration, obj) ==
    IF ~RelationshipShapeOk(obj)
    THEN R(Violation("NotARelationship", p.root, relationshipDeclaration.type, render(obj),
                     "", "Relationship"), obj, p)
    ELSE IF ~Resolves(obj.type) THEN R(TypeNotFound(obj.type), obj, p)
    ELSE R(Assignability(isAssignableTo(getType(obj.type), relationshipDeclaration.type),
                         p, relationshipDeclaration, obj.type), obj, p)

RECURSIVE checkRelationships(_, _, _, _)
RECURSIVE thenRelationships(_, _, _, _)
checkRelationships(p, relationshipDeclaration, obj, n) ==
    IF n > Len(obj.items) THEN R(Ok, obj, p)
    ELSE thenRelationships(relationshipDeclaration, obj, n,
                           checkRelationship(p, relationshipDeclaration, obj.items[n]))

thenRelationships(relationshipDeclaration, obj, n, r) ==
    IF r.out # Ok THEN InArray(obj, n, r)
    ELSE checkRelationships(r.p, relationshipDeclaration, obj, n + 1)

\* mutant: a value that is not an array is checked as a single relationship
visitRelationshipDeclarationOfOne(relationshipDeclaration, obj, p) ==
    IF obj = Undefined
    THEN IF relationshipDeclaration.isOptional THEN R(Ok, obj, p)
         ELSE R(Violation("TypeMismatch", p.root, relationshipDeclaration.name, "undefined",
                          "undefined", expectedType(relationshipDeclaration)), obj, p)
    ELSE IF relationshipDeclaration.isArray /\ obj.k = "array"
    THEN checkRelationships(p, relationshipDeclaration, obj, 1)
    ELSE checkRelationship(p, relationshipDeclaration, obj)

visitRelationshipDeclaration(relationshipDeclaration, obj, p) ==
    IF obj = Undefined
    THEN IF relationshipDeclaration.isOptional THEN R(Ok, obj, p)
         ELSE R(Violation("TypeMismatch", p.root, relationshipDeclaration.name, "undefined",
                          "undefined", expectedType(relationshipDeclaration)), obj, p)
    ELSE IF relationshipDeclaration.isArray
    THEN IF obj.k # "array"
         THEN R(Violation("RelationshipTypeMismatch", p.root, relationshipDeclaration.name,
                          "", typeOf(obj), expectedType(relationshipDeclaration)), obj, p)
         ELSE checkRelationships(p, relationshipDeclaration, obj, 1)
    ELSE checkRelationship(p, relationshipDeclaration, obj)

RECURSIVE visitClassDeclaration(_, _, _)
RECURSIVE visitResolved(_, _, _, _)
RECURSIVE checkProperties(_, _, _, _)
RECURSIVE thenProperties(_, _, _, _)
RECURSIVE visitField(_, _, _)
RECURSIVE checkArray(_, _, _, _)
RECURSIVE thenArray(_, _, _, _)
RECURSIVE checkItem(_, _, _)

\* the first own property of obj that the class does not declare, or ""
FirstUndeclared(props, fields) ==
    IF \A i \in DOMAIN props : \E j \in DOMAIN fields : fields[j].name = props[i].name
    THEN ""
    ELSE props[CHOOSE i \in DOMAIN props :
                 /\ \A j \in DOMAIN fields : fields[j].name # props[i].name
                 /\ \A h \in 1..(i - 1) :
                        \E j \in DOMAIN fields : fields[j].name = props[h].name].name

\* mutant: system properties, those named with a $, are not looked at
UndeclaredKeyButSystem(obj, fields) ==
    FirstUndeclared(SelectSeq(obj.props, LAMBDA q : q.name # "$numberOfWipers"), fields)

UndeclaredKey(obj, fields) == FirstUndeclared(obj.props, fields)

\* identifier normalisation of an identifiable value whose identifier is not empty
\* mutant: $identifier is left as it came
ShadowAsGiven(obj, idField) == obj

\* obj.$identifier takes the value of the identifier field
ShadowFromField(obj, idField) == [obj EXCEPT !.identifier = Get(obj, idField).s]

\* mutant: an empty identifier field is left empty
FieldAsGiven(obj, idField) == obj

\* the identifier field takes the value of obj.$identifier
FieldFromShadow(obj, idField) == Put(obj, idField, Str(obj.identifier))

\* mutant: $identifier takes the value of the identifier field even when that is empty
NormalizeIdentifierFromField(obj, idField) ==
    [obj EXCEPT !.identifier = IF Get(obj, idField) = Undefined THEN ""
                               ELSE Get(obj, idField).s]

NormalizeIdentifier(obj, idField) ==
    IF IsEmpty(Get(obj, idField))
    THEN FieldFromShadow(obj, idField)
    ELSE ShadowFromField(obj, idField)

\* mutant: the parameters stay as the caller gave them
IdentifiedAsGiven(p, obj) == p

\* the parameters once an identifiable value passed its identifier check
Identified(p, obj) ==
    IF p.nested THEN p
    ELSE [p EXCEPT !.root = getFullyQualifiedIdentifier(obj),
                   !.cur = getFullyQualifiedIdentifier(obj)]

\* mutant: an abstract class is visited like any other
visitClassDeclarationOfAbstract(classDeclarationName, obj, p) ==
    IF obj.k \notin {"Resource", "Concept"}
    THEN R(Violation("NotAResourceOrConcept", p.root, classDeclarationName, render(obj),
                     "", ""), obj, p)
    ELSE IF ~Resolves(obj.type) THEN R(TypeNotFound(obj.type), obj, p)
    ELSE visitResolved(getType(obj.type), getProperties(getType(obj.type)), obj, p)

\* mutant: the type of a typed value is resolved before its shape is looked at
visitClassDeclarationResolvingFirst(classDeclarationName, obj, p) ==
    IF IsTyped(obj) /\ ~Resolves(obj.type) THEN R(TypeNotFound(obj.type), obj, p)
    ELSE IF obj.k \notin {"Resource", "Concept"}
    THEN R(Violation("NotAResourceOrConcept", p.root, classDeclarationName, render(obj),
                     "", ""), obj, p)
    ELSE IF getType(obj.type).abstract
    THEN R(Violation("AbstractInstantiation", "", obj.type, "", "", ""), obj, p)
    ELSE visitResolved(getType(obj.type), getProperties(getType(obj.type)), obj, p)

visitClassDeclaration(classDeclarationName, obj, p) ==
    IF obj.k \notin {"Resource", "Concept"}
    THEN R(Violation("NotAResourceOrConcept", p.root, classDeclarationName, render(obj),
                     "", ""), obj, p)
    ELSE IF ~Resolves(obj.type) THEN R(TypeNotFound(obj.type), obj, p)
    ELSE IF getType(obj.type).abstract
    THEN R(Violation("AbstractInstantiation", "", obj.type, "", "", ""), obj, p)
    ELSE visitResolved(getType(obj.type), getProperties(getType(obj.type)), obj, p)

\* mutant: the identifier is checked before the properties are compared with
\* the declared ones
visitResolvedIdentifierFirst(toBeAssignedClassDeclaration, props, obj, p) ==
    IF ~props.ok THEN R(TypeNotFound(props.missing), obj, p)
    ELSE IF /\ toBeAssignedClassDeclaration.idField # NoId
            /\ IsEmpty(Get(obj, toBeAssignedClassDeclaration.idField))
            /\ obj.identifier = ""
    THEN R(Violation("EmptyIdentifier", p.root, "", "", "", ""), obj, p)
    ELSE IF UndeclaredKey(obj, props.fields) # ""
    THEN R(Violation("UndeclaredProperty",
                     IF obj.k = "Resource" THEN obj.identifier ELSE p.cur,
                     UndeclaredKey(obj, props.fields), "",
                     toBeAssignedClassDeclaration.name, ""), obj, p)
    ELSE IF toBeAssignedClassDeclaration.idField = NoId
    THEN checkProperties(props.fields, 1, obj, p)
    ELSE checkProperties(props.fields, 1,
                         NormalizeIdentifier(obj, toBeAssignedClassDeclaration.idField),
                         Identified(p, NormalizeIdentifier(obj, toBeAssignedClassDeclaration.idField)))

\* the checks of a value against its resolved, non-abstract class declaration
visitResolved(toBeAssignedClassDeclaration, props, obj, p) ==
    IF ~props.ok THEN R(TypeNotFound(props.missing), obj, p)
    ELSE IF UndeclaredKey(obj, props.fields) # ""
    THEN R(Violation("UndeclaredProperty",
                     IF obj.k = "Resource" THEN obj.identifier ELSE p.cur,
                     UndeclaredKey(obj, props.fields), "",
                     toBeAssignedClassDeclaration.name, ""), obj, p)
    ELSE IF toBeAssignedClassDeclaration.idField = NoId
    THEN checkProperties(props.fields, 1, obj, p)
    ELSE IF IsEmpty(Get(obj, toBeAssignedClassDeclaration.idField)) /\ obj.identifier = ""
    THEN R(Violation("EmptyIdentifier", p.root, "", "", "", ""), obj, p)
    ELSE checkProperties(props.fields, 1,
                         NormalizeIdentifier(obj, toBeAssignedClassDeclaration.idField),
                         Identified(p, NormalizeIdentifier(obj, toBeAssignedClassDeclaration.idField)))

\* validate each property in declaration order; the first violation ends the walk
checkProperties(properties, n, obj, p) ==
    IF n > Len(properties) THEN R(Ok, obj, p)
    ELSE IF Get(obj, properties[n].name) = Undefined
    THEN IF properties[n].isOptional THEN checkProperties(properties, n + 1, obj, p)
         ELSE R(Violation("TypeMismatch", p.root, properties[n].name, "undefined",
                          "undefined", expectedType(properties[n])), obj, p)
    ELSE thenProperties(properties, n, obj,
                        IF properties[n].isRelationship
                        THEN visitRelationshipDeclaration(properties[n],
                                                          Get(obj, properties[n].name), p)
                        ELSE visitField(properties[n], Get(obj, properties[n].name), p))

thenProperties(properties, n, obj, r) ==
    IF r.out # Ok THEN InObject(obj, properties[n].name, r)
    ELSE checkProperties(properties, n + 1, InObject(obj, properties[n].name, r).v, r.p)

\* mutant: an absent value is accepted for any field
visitFieldOfAbsent(field, obj, p) ==
    IF obj = Undefined THEN R(Ok, obj, p)
    ELSE IF field.isEnum THEN checkEnum(obj, field, p)
    ELSE IF field.isArray
    THEN IF obj.k # "array"
         THEN R(Violation("TypeMismatch", p.root, field.name, render(obj), typeOf(obj),
                          expectedType(field)), obj, p)
         ELSE checkArray(obj, field, 1, p)
    ELSE checkItem(obj, field, p)

visitField(field, obj, p) ==
    IF obj = Undefined
    THEN IF field.isOptional THEN R(Ok, obj, p)
         ELSE R(Violation("TypeMismatch", p.root, field.name, "undefined", "undefined",
                          expectedType(field)), obj, p)
    ELSE IF field.isEnum THEN checkEnum(obj, field, p)
    ELSE IF field.isArray
    THEN IF obj.k # "array"
         THEN R(Violation("TypeMismatch", p.root, field.name, render(obj), typeOf(obj),
                          expectedType(field)), obj, p)
         ELSE checkArray(obj, field, 1, p)
    ELSE checkItem(obj, field, p)

checkArray(obj, field, n, p) ==
    IF n > Len(obj.items) THEN R(Ok, obj, p)
    ELSE thenArray(obj, field, n, checkItem(obj.items[n], field, p))

thenArray(obj, field, n, r) ==
    IF r.out # Ok THEN InArray(obj, n, r)
    ELSE checkArray(InArray(obj, n, r).v, field, n + 1, r.p)

\* the result r of the visit of an embedded value, back in the parameters p of the field
Embedded(r, p) == R(r.out, r.v, [r.p EXCEPT !.nested = p.nested])

\* mutant: the failure to resolve the type of an identifiable is not caught
ItemTypeUncaught(obj, field, p) ==
    IF ~IsTyped(obj) THEN Ok
    ELSE IF ~Resolves(obj.type) THEN TypeNotFound(obj.type)
    ELSE Assignability(isAssignableTo(getType(obj.type), field.type), p, field, obj.type)

\* may a typed value be embedded in the field, as far as its type goes
ItemType(obj, field, p) ==
    IF ~IsTyped(obj) THEN Ok
    ELSE IF ~Resolves(obj.type)
    THEN IF IsIdentifiable(obj)
         THEN Violation("TypeMismatch", p.root, field.name, render(obj), typeOf(obj),
                        expectedType(field))
         ELSE TypeNotFound(obj.type)
    ELSE Assignability(isAssignableTo(getType(obj.type), field.type), p, field, obj.type)

checkItem(obj, field, p) ==
    IF obj = Undefined
    THEN R(Violation("TypeMismatch", p.root, field.name, "undefined", "undefined",
                     expectedType(field)), obj, p)
    ELSE IF field.isPrimitive
    THEN IF PrimitiveInvalid(field.type, obj)
         THEN R(Violation("TypeMismatch", p.root, field.name, render(obj), typeOf(obj),
                          expectedType(field)), obj, p)
         ELSE R(Ok, obj, p)
    ELSE IF ~Resolves(field.type) THEN R(TypeNotFound(field.type), obj, p)
    ELSE IF ItemType(obj, field, p) # Ok THEN R(ItemType(obj, field, p), obj, p)
    ELSE Embedded(visitClassDeclaration(field.type, obj, [p EXCEPT !.nested = TRUE]), p)

(***************************************************************************)
(* Dispatch: what a declaration does when it accepts the validator.        *)
(***************************************************************************)
ClassThing(name) == [kind |-> "class", name |-> name]
EnumThing(name) == [kind |-> "enum", name |-> name]
FieldThing(owner, field) == [kind |-> "field", name |-> owner, field |-> field]

StaticDeclarations ==
    Range(enumModelString) \cup Range(levelOneModel) \cup Range(levelTwoModel)
        \cup Range(levelThreeModel) \cup Range(levelFourModel)

StaticDecl(name) == CHOOSE d \in StaticDeclarations : d.name = name

visit(thing, obj, p) ==
    CASE thing.kind = "enum" -> visitEnumDeclaration(StaticDecl(thing.name), obj, p)
      [] thing.kind = "class" -> visitClassDeclaration(thing.name, obj, p)
      [] thing.kind = "field" /\ thing.field.isRelationship ->
             visitRelationshipDeclaration(thing.field, obj, p)
      [] OTHER -> visitField(thing.field, obj, p)

Parameters(root) == [root |-> root, cur |-> "undefined", nested |-> FALSE]

(***************************************************************************)
(* Instances, built the way the factory and the tests build them.          *)
(***************************************************************************)
newResource(type, id) ==
    Typed("Resource", type, id, <<P(StaticDecl(type).idField, Str(id))>>)
newRelationship(type, id) == Typed("Relationship", type, id, <<>>)
newConcept(type) == Typed("Concept", type, "", <<>>)

\* obj.$identifier = id
setShadow(obj, id) == [obj EXCEPT !.identifier = id]
\* obj.setIdentifier(id)
setIdentifier(obj, id) == Put(setShadow(obj, id), StaticDecl(obj.type).idField, Str(id))
\* delete obj[name]
Delete(obj, name) == [obj EXCEPT !.props = SelectSeq(obj.props, LAMBDA pr : pr.name # name)]

RECURSIVE PutAll(_, _)
PutAll(obj, props) ==
    IF props = <<>> THEN obj
    ELSE PutAll(Put(obj, Head(props).name, Head(props).val), Tail(props))

\* valid values for the required fields of a type other than its identifier
Required(type) ==
    CASE type = "org.acme.l3.Car" ->
             <<P("model", Str("Ford")), P("numberOfWheels", Num("4")), P("milage", Num("3.14"))>>
      [] type = "org.acme.l2.Vehicle" ->
             <<P("numberOfWheels", Num("4")), P("milage", Num("3.14"))>>
      [] type = "org.acme.l2.PrivateOwner" -> <<P("employeeId", Str("E1"))>>
      [] type \in {"org.acme.l1.Data", "org.acme.l3.TestConcept"} -> <<P("name", Str("name"))>>
      [] OTHER -> <<>>

Filled(obj) == PutAll(obj, Required(obj.type))

(***************************************************************************)
(* The values the exploration pushes on the stack.                         *)
(***************************************************************************)
MaxLen == 2

Car == "org.acme.l3.Car"
Vehicle == "org.acme.l2.Vehicle"
Base == "org.acme.l1.Base"
Person == "org.acme.l1.Person"
Employee == "org.acme.l1.Employee"
PrivateOwner == "org.acme.l2.PrivateOwner"
Garage == "org.acme.l4.Garage"
Data == "org.acme.l1.Data"
TestConcept == "org.acme.l3.TestConcept"

IdentifiableTypes == {Car, Vehicle, Base, Person, Employee, PrivateOwner, Garage}

\* a filled resource and the ways its identifier and $identifier can disagree
IdCases(r) ==
    LET idField == StaticDecl(r.type).idField
    IN  {r, setShadow(r, ""), setShadow(r, "42"), Put(r, idField, Str("")),
         Delete(r, idField), setIdentifier(r, ""), setShadow(Delete(r, idField), "")}

\* an instance with zero, one or two properties its class does not declare
Extras(o) ==
    {o, Put(o, "foo", Str("Baz")), Put(o, "$numberOfWipers", Num("2")),
     Put(Put(o, "$numberOfWipers", Num("2")), "foo", Str("Baz"))}

Variants(type) ==
    LET r == newResource(type, "foo")
    IN  IdCases(Filled(r))
        \cup UNION {Extras(o) : o \in {Filled(r), r, setIdentifier(Filled(r), ""),
                                       setIdentifier(r, "")}}

ValidEmployee == newResource(Employee, "DAN")
ValidCar == Filled(newResource(Car, "ABC"))

CarCases ==
    LET c == Filled(newResource(Car, "123"))
    IN  {Put(c, "model", Num("123")), Put(c, "milage", NaN),
         Put(Put(c, "model", Num("123")), "foo", Str("Baz")),
         Put(c, "numberOfWheels", Str("four")),
         Put(c, "owner", newRelationship(Person, "DAN")),
         Put(c, "owner", newRelationship(Employee, "DAN")),
         Put(c, "owner", newRelationship(Base, "DAN")),
         Put(c, "owner", ValidEmployee),
         Put(c, "owners", newRelationship(Person, "123")),
         Put(Put(newResource(Car, "123"), "owners", newRelationship(Person, "123")),
             "model", Str("FOO")),
         Put(c, "owners", Arr(<<newRelationship(Person, "1"), newRelationship(PrivateOwner, "2")>>)),
         Put(c, "owners", Arr(<<newRelationship(Person, "1"), newRelationship(Base, "2")>>)),
         Put(c, "containment", Arr(<<ValidEmployee>>)),
         Put(c, "containment", Arr(<<ValidEmployee, setShadow(ValidEmployee, "")>>)),
         Put(c, "containment", Arr(<<newResource(Base, "DAN")>>)),
         Put(c, "containment", ValidEmployee),
         Put(c, "singlePerson", ValidEmployee),
         Put(c, "singlePerson", setIdentifier(ValidEmployee, "")),
         Put(c, "singlePerson", Filled(newConcept(Data))),
         Put(c, "singlePerson", Str("DAN")),
         Put(c, "serviceHistory", Arr(<<Str("FOO"), Num("1")>>)),
         Put(c, "serviceHistory", Str("FOO")),
         Put(c, "vehicleTypes", Arr(<<Str("CAR"), Str("1")>>)),
         Put(c, "vehicleTypes", Arr(<<Str("CAR"), Str("TRUCK")>>)),
         Put(c, "vehicleTypes", Str("CAR"))}

GarageCases ==
    LET g == newResource(Garage, "g1")
    IN  {g, Put(g, "parked", ValidCar),
         Put(g, "parked", setShadow(ValidCar, "")),
         Put(g, "parked", Filled(newResource(Vehicle, "V1"))),
         Put(g, "parked", newResource(Base, "B1")),
         Put(g, "parked", Put(ValidCar, "foo", Str("Baz"))),
         Put(g, "stored", Arr(<<ValidCar, newResource(Base, "B1")>>)),
         Put(g, "stored", Arr(<<newResource(Base, "B1"), ValidEmployee>>)),
         Put(g, "info", Filled(newConcept(Data))),
         Put(g, "info", newConcept(Data)),
         Put(g, "info", Filled(newConcept(TestConcept))),
         Put(g, "any", newRelationship(Car, "ABC")),
         Put(g, "any", newRelationship(Person, "DAN")),
         Put(g, "fleet", Arr(<<newRelationship(Car, "1"), newRelationship(Vehicle, "2")>>)),
         Put(g, "fleet", Arr(<<newRelationship(Base, "1")>>)),
         Put(g, "kind", Str("CAR")), Put(g, "kind", Str("1")),
         Put(Put(g, "kind", Str("1")), "parked", setShadow(ValidCar, "")),
         Put(Put(g, "parked", setShadow(ValidCar, "")), "info", newConcept(Data))}

ConceptCases ==
    UNION {Extras(o) : o \in {Filled(newConcept(Data)), newConcept(Data),
                              Filled(newConcept(TestConcept))}}

Primitives ==
    {Str("FOO"), Str("CAR"), Str("PIG"), Str("MISSING"), Str("1"), Num("123"), NaN,
     Bool("false"), Date("2016-10-13T14:49:47.971Z")}

\* what is visited by a class declaration
ClassInputs ==
    Variants(Car) \cup Variants(Vehicle) \cup Variants(Employee)
        \cup CarCases \cup GarageCases \cup ConceptCases
        \cup {Str("Invalid"), Num("123"), Arr(<<ValidCar>>), newRelationship(Car, "ABC")}

Relationships == {newRelationship(t, "DAN") : t \in IdentifiableTypes}
Resources ==
    {Filled(newResource(t, "DAN")) : t \in IdentifiableTypes}
        \cup {setShadow(ValidEmployee, ""), setIdentifier(ValidEmployee, ""),
              newResource(Car, "DAN")}
Concepts == {Filled(newConcept(Data)), Filled(newConcept(TestConcept))}

Seqs(S) == UNION {[1..n -> S] : n \in 0..MaxLen}

Arrays ==
    {Arr(a) : a \in Seqs({Str("FOO"), Str("CAR"), Str("1"), Num("1")})
                 \cup Seqs({newRelationship(Person, "DAN"), newRelationship(Base, "DAN"),
                            newRelationship(Car, "DAN")})
                 \cup Seqs({ValidEmployee, setShadow(ValidEmployee, ""),
                            newResource(Base, "DAN"), ValidCar})}

\* what is visited by a field, a relationship or an enum declaration
FieldInputs == Primitives \cup {Undefined} \cup Relationships \cup Resources \cup Concepts \cup Arrays

ClassThings == {ClassThing(Car), ClassThing(Vehicle), ClassThing(Data)}
EnumThings == {EnumThing("org.acme.enumerations.AnimalType"), EnumThing("org.acme.l1.VehicleType")}
FieldThings ==
    {FieldThing(d.name, d.own[i]) :
        d \in {StaticDecl(Car), StaticDecl(Garage)}, i \in 1..7}
    \cup {FieldThing(Vehicle, StaticDecl(Vehicle).own[2])}

\* the rootResourceIdentifier a caller passes; "undefined" when it passes none
Roots == {"TEST", "undefined"}

(***************************************************************************)
(* The class declaration comparers of concerto-analysis and the default    *)
(* rules that rank what they report.                                       *)
(***************************************************************************)
\* enum CompareResult
NONE == 0
PATCH == 1
MINOR == 2
MAJOR == 3
ERROR == 4

\* defaultCompareConfig.rules
rules ==
    [key \in {"asset-added", "asset-removed", "concept-added", "concept-removed",
              "enum-added", "enum-removed", "event-added", "event-removed",
              "participant-added", "participant-removed", "transaction-added",
              "transaction-removed", "required-field-added", "optional-field-added",
              "field-removed", "namespace-changed"} |->
        CASE key \in {"asset-added", "concept-added", "enum-added", "event-added",
                      "participant-added", "transaction-added"} -> MINOR
          [] key \in {"asset-removed", "concept-removed", "enum-removed", "event-removed",
                      "participant-removed", "transaction-removed"} -> MAJOR
          [] key = "required-field-added" -> MAJOR
          [] key = "optional-field-added" -> PATCH
          [] key = "field-removed" -> MAJOR
          [] OTHER -> ERROR]

\* a class declaration as the comparers see it, and the absent declaration
ClassDeclaration(type, name) == [type |-> type, name |-> name]
NoDeclaration == [type |-> "", name |-> ""]
getClassDeclarationType(d) == d.type
getName(d) == d.name

\* context.report({key, message, element})
Report(key, message, element) == [key |-> key, message |-> message, element |-> element]

\* mutant: a declaration is reported as added whenever b is there
classDeclarationAddedOfAny(a, b) ==
    IF b # NoDeclaration
    THEN <<Report(getClassDeclarationType(b) \o "-added",
                  "The " \o getClassDeclarationType(b) \o " \"" \o getName(b)
                      \o "\" was added", b)>>
    ELSE <<>>

\* the reports of compareClassDeclaration(a, b) of the comparer classDeclarationAdded
classDeclarationAdded(a, b) ==
    IF a = NoDeclaration /\ b # NoDeclaration
    THEN <<Report(getClassDeclarationType(b) \o "-added",
                  "The " \o getClassDeclarationType(b) \o " \"" \o getName(b)
                      \o "\" was added", b)>>
    ELSE <<>>

\* the reports of compareClassDeclaration(a, b) of the comparer classDeclarationRemoved
classDeclarationRemoved(a, b) ==
    IF a # NoDeclaration /\ b = NoDeclaration
    THEN <<Report(getClassDeclarationType(a) \o "-removed",
                  "The " \o getClassDeclarationType(a) \o " \"" \o getName(a)
                      \o "\" was removed", a)>>
    ELSE <<>>

classDeclarationComparerFactories == <<"classDeclarationAdded", "classDeclarationRemoved">>

\* the declarations given to the comparers
DeclarationTypes == {"asset", "concept", "enum", "event", "participant", "transaction"}
DeclarationNames == {"Car", "Person"}
OptionalDeclarations ==
    {NoDeclaration} \cup {ClassDeclaration(t, n) : t \in DeclarationTypes, n \in DeclarationNames}
NoPair == [a |-> NoDeclaration, b |-> NoDeclaration]

(***************************************************************************)
(* The state machine: the harness around the validator.                    *)
(***************************************************************************)
NoCall == [thing |-> [kind |-> "none", name |-> ""], root |-> "", before |-> Undefined,
           out |-> Ok, after |-> Undefined]

Init ==
    /\ modelFiles = Namespaces
    /\ carAbstract = FALSE
    /\ options = [convertResourcesToRelationships |-> FALSE,
                  permitResourcesForRelationships |-> FALSE]
    /\ stack = Undefined
    /\ call = NoCall
    /\ prev = NoCall
    /\ ncalls = 0
    /\ pair = NoPair
    /\ ran = {}
    /\ reports = <<>>

\* modelManager.deleteModelFile(ns)
deleteModelFile(ns) ==
    /\ ncalls = 0
    /\ ns \in modelFiles
    /\ Cardinality(Namespaces \ modelFiles) < MaxDeleted
    /\ modelFiles' = modelFiles \ {ns}
    /\ carAbstract' = IF ns = "org.acme.l3" THEN FALSE ELSE carAbstract
    /\ UNCHANGED <<options, stack, call, prev, ncalls>>
    /\ UNCHANGED comparison

\* modelManager.addCTOModel(abstractLevelThreeModel), after org.acme.l3 was deleted
addCTOModel ==
    /\ ncalls = 0
    /\ "org.acme.l3" \notin modelFiles
    /\ modelFiles' = modelFiles \cup {"org.acme.l3"}
    /\ carAbstract' = TRUE
    /\ UNCHANGED <<options, stack, call, prev, ncalls>>
    /\ UNCHANGED comparison

\* resourceValidator.options[name] = true
setOption(name) ==
    /\ ncalls = 0
    /\ ~options[name]
    /\ options' = [options EXCEPT ![name] = TRUE]
    /\ UNCHANGED <<modelFiles, carAbstract, stack, call, prev, ncalls>>
    /\ UNCHANGED comparison

\* thing.accept(resourceValidator, {stack: new TypedStack(obj), rootResourceIdentifier: root})
accept(thing, obj, root) ==
    LET r == visit(thing, obj, Parameters(root))
    IN  /\ ncalls < MaxCalls
        /\ call' = [thing |-> thing, root |-> root, before |-> obj, out |-> r.out,
                    after |-> r.v]
        /\ prev' = call
        /\ stack' = r.v
        /\ ncalls' = ncalls + 1
        /\ UNCHANGED <<modelFiles, carAbstract, options>>
        /\ UNCHANGED comparison

AcceptClass ==
    /\ ncalls = 0
    /\ \E thing \in ClassThings, obj \in ClassInputs, root \in Roots : accept(thing, obj, root)

AcceptField ==
    /\ ncalls = 0
    /\ \E thing \in FieldThings \cup EnumThings, obj \in FieldInputs, root \in Roots :
           accept(thing, obj, root)

\* the same declaration accepts again, with the value as the first call left it
AcceptAgain ==
    /\ ncalls >= 1
    /\ call.thing.kind = "class"
    /\ accept(call.thing, stack, call.root)

Next ==
    \/ \E ns \in {"org.acme.l1", "org.acme.l3"} : deleteModelFile(ns)
    \/ addCTOModel
    \/ \E name \in DOMAIN options : setOption(name)
    \/ AcceptClass
    \/ AcceptField
    \/ AcceptAgain

Spec == Init /\ [][Next]_vars

(***************************************************************************)
(* The state machine of a comparison: a pair (a, b) is taken up and each   *)
(* comparer is given it once, in any order.                                *)
(***************************************************************************)
validation == <<modelFiles, carAbstract, options, stack, call, prev, ncalls>>

\* the pair of class declarations of the same name in the two model files
takePair(a, b) ==
    /\ pair' = [a |-> a, b |-> b]
    /\ ran' = {}
    /\ reports' = <<>>
    /\ UNCHANGED validation

\* comparer.compareClassDeclaration?.(a, b) of one comparer
compareClassDeclaration(n) ==
    /\ classDeclarationComparerFactories[n] \notin ran
    /\ ran' = ran \cup {classDeclarationComparerFactories[n]}
    /\ reports' = reports \o (IF classDeclarationComparerFactories[n] = "classDeclarationAdded"
                               THEN classDeclarationAdded(pair.a, pair.b)
                               ELSE classDeclarationRemoved(pair.a, pair.b))
    /\ UNCHANGED <<pair>>
    /\ UNCHANGED validation

NextCompare ==
    \/ \E a \in OptionalDeclarations, b \in OptionalDeclarations : takePair(a, b)
    \/ \E n \in DOMAIN classDeclarationComparerFactories : compareClassDeclaration(n)

SpecCompare == Init /\ [][NextCompare]_vars

(***************************************************************************)
(* Properties of the validator.  They are stated over the last accept      *)
(* call: the thing that accepted, the value before, the outcome, and the   *)
(* value (stack) the call left.                                            *)
(***************************************************************************)
Called == ncalls >= 1
ClassCall == Called /\ call.thing.kind = "class"
FieldCall == Called /\ call.thing.kind = "field"
EnumCall == Called /\ call.thing.kind = "enum"

\* the super types of a class, read off the model files as written
RECURSIVE Ancestors(_)
Ancestors(name) ==
    IF StaticDecl(name).super = NoSuper THEN {}
    ELSE {StaticDecl(name).super} \cup Ancestors(StaticDecl(name).super)

DerivedFrom(type, target) == type = target \/ target \in Ancestors(type)

\* the abstract model that replaces org.acme.l3 declares Car alone
Present(name) ==
    /\ NamespaceOf(name) \in modelFiles
    /\ ~(carAbstract /\ name = TestConcept)
ChainPresent(type) == \A a \in {type} \cup Ancestors(type) : Present(a)
IsAbstract(type) == type = Car /\ carAbstract

MismatchKinds == {"TypeMismatch", "RelationshipTypeMismatch", "NotARelationship"}

IsClassField(f) == ~f.isPrimitive /\ ~f.isEnum

\* has the value the shape the field takes
ShapeFits(f, v) ==
    IF f.isRelationship
    THEN \/ v.k = "Relationship"
         \/ /\ v.k = "Resource"
            /\ (options.convertResourcesToRelationships
                \/ options.permitResourcesForRelationships)
    ELSE v.k \in {"Resource", "Concept"}

\* instances that satisfy their own class declaration
ValidInstance(v) ==
    /\ v \in {Filled(newResource(t, "DAN")) : t \in IdentifiableTypes}
             \cup {ValidEmployee, ValidCar, setShadow(ValidEmployee, "")} \cup Concepts
    /\ ~IsAbstract(v.type)

\* the claim of C1 for one value v checked against the class-typed field f
SubstitutableItem(f, v, out) ==
    IF DerivedFrom(v.type, f.type)
    THEN /\ out.kind # "RelationshipTypeMismatch"
         /\ (ShapeFits(f, v) /\ (f.isRelationship \/ ValidInstance(v)) => out = Ok)
    ELSE out.kind \in MismatchKinds

C2_Abstract ==
    /\ ClassCall /\ call.before.k \in {"Resource", "Concept"}
           /\ Present(call.before.type) /\ IsAbstract(call.before.type) =>
           call.out.kind = "AbstractInstantiation" /\ call.out.name = call.before.type
    /\ FieldCall /\ IsClassField(call.thing.field) /\ ~call.thing.field.isRelationship
           /\ ~call.thing.field.isArray /\ call.before.k \in {"Resource", "Concept"}
           /\ Present(call.thing.field.type) /\ ChainPresent(call.before.type)
           /\ IsAbstract(call.before.type)
           /\ DerivedFrom(call.before.type, call.thing.field.type) =>
           call.out.kind = "AbstractInstantiation" /\ call.out.name = call.before.type

\* C2 witness: an abstract Car with an undeclared property, checked against Vehicle
C2_Witness ==
    /\ ClassCall
    /\ call.thing.name = Vehicle
    /\ carAbstract
    /\ call.before.k = "Resource"
    /\ call.before.type = Car
    /\ "foo" \in PropNames(call.before)
    /\ call.out.kind = "AbstractInstantiation"

\* the resolver is asked for the type of the value, or for one of its super
\* types, and fails
ResolverFails(v) ==
    \/ ~Present(v.type)
    \/ ~IsAbstract(v.type) /\ ~ChainPresent(v.type)

\* a field call that embeds an identifiable value whose type does not resolve
EmbedsUnresolved ==
    /\ FieldCall /\ IsClassField(call.thing.field) /\ ~call.thing.field.isRelationship
    /\ ~call.thing.field.isArray /\ Present(call.thing.field.type)
    /\ IsIdentifiable(call.before) /\ ~Present(call.before.type)

\* C3 (amended): when the type of the value under a class declaration check,
\* or one of its super types, does not resolve, the call fails with the
\* resolver's TypeNotFound for the missing type; when the type of an
\* identifiable value embedded in a field does not resolve, the call fails with
\* a TypeMismatch on that field.  In neither case does the call succeed.
C3_TypeNotFound ==
    /\ ClassCall /\ call.before.k \in {"Resource", "Concept"} /\ ResolverFails(call.before) =>
           /\ call.out.kind = "TypeNotFound"
           /\ ~Present(call.out.name)
    /\ EmbedsUnresolved =>
           /\ call.out.kind = "TypeMismatch"
           /\ call.out.name = call.thing.field.name

\* C3 witness: a Vehicle is checked after the namespace of its super type was deleted
C3_Witness ==
    /\ ClassCall
    /\ call.before.k = "Resource"
    /\ call.before.type = Vehicle
    /\ "org.acme.l1" \notin modelFiles
    /\ call.out.kind = "TypeNotFound"
    /\ call.out.value = "org.acme.l1"

\* C3 as stated: every failure of the resolver during a call, that for the
\* type of an embedded value included, ends the call with TypeNotFound
C3_Original ==
    /\ ClassCall /\ call.before.k \in {"Resource", "Concept"} /\ ResolverFails(call.before) =>
           call.out.kind = "TypeNotFound"
    /\ EmbedsUnresolved => call.out.kind = "TypeNotFound"

\* the names of the fields a class declares or inherits, as the model files are written
FlattenedNames(type) ==
    UNION {{StaticDecl(d).own[i].name : i \in DOMAIN StaticDecl(d).own} :
                   d \in {type} \cup Ancestors(type)}

\* the keys a value carries that its class neither declares nor inherits
UndeclaredOf(v) == {v.props[i].name : i \in DOMAIN v.props} \ FlattenedNames(v.type)

\* a Concept or Resource whose class and super types resolve to a class that is
\* not abstract
Checkable(v) ==
    /\ v.k \in {"Resource", "Concept"}
    /\ ChainPresent(v.type)
    /\ ~IsAbstract(v.type)

\* no instance is embedded in the value, directly or in an array
Flat(v) ==
    \A i \in DOMAIN v.props :
        /\ v.props[i].val.k \notin {"Resource", "Concept"}
        /\ v.props[i].val.k = "array" =>
               \A n \in DOMAIN v.props[i].val.items :
                   v.props[i].val.items[n].k \notin {"Resource", "Concept"}

\* C4: the class declaration check of a Concept or Resource whose resolved class
\* is not abstract fails with UndeclaredProperty when the value carries a key
\* that its class neither declares nor inherits; the violation names such a
\* key and the resolved type.  Keys that start with $ are rejected like any
\* other, for identifiable classes and concepts alike; $identifier alone is
\* exempt, so a value that carries no undeclared key and embeds no instance
\* never gets UndeclaredProperty, whatever its $identifier is.
C4_Undeclared ==
    ClassCall /\ Checkable(call.before) =>
        IF UndeclaredOf(call.before) # {}
        THEN /\ call.out.kind = "UndeclaredProperty"
             /\ call.out.name \in UndeclaredOf(call.before)
             /\ call.out.actual = call.before.type
        ELSE Flat(call.before) => call.out.kind # "UndeclaredProperty"

\* a concept with a $-prefixed key of its own is rejected for that key
C4_Witness ==
    /\ ClassCall /\ Checkable(call.before)
    /\ call.before.k = "Concept"
    /\ UndeclaredOf(call.before) = {"$numberOfWipers"}
    /\ call.out.kind = "UndeclaredProperty"
    /\ call.out.name = "$numberOfWipers"
    /\ call.out.actual = Data

\* the literals of an enum, as the model files are written
Literals(enum) == Range(StaticDecl(enum).literals)

\* the strings checked against an enum by the last call: the value itself, or
\* the elements of an array of strings; <<>> when the call is no such check
EnumStrings ==
    IF call.before.k = "string" THEN <<call.before.s>>
    ELSE IF /\ call.before.k = "array"
            /\ \A n \in DOMAIN call.before.items : call.before.items[n].k = "string"
    THEN [n \in DOMAIN call.before.items |-> call.before.items[n].s]
    ELSE <<>>

\* the enum the last call checked strings against, "" when it checked none
EnumChecked ==
    IF EnumCall /\ call.before.k = "string" THEN call.thing.name
    ELSE IF /\ FieldCall /\ call.thing.field.isEnum /\ Present(call.thing.field.type)
            /\ call.thing.field.isArray = (call.before.k = "array")
            /\ EnumStrings # <<>>
    THEN call.thing.field.type
    ELSE ""

\* the outcome of checking the strings ss against enum, naming the enum as `named`
EnumOutcome(ss, enum, named, out) ==
    IF \A n \in DOMAIN ss : ss[n] \in Literals(enum)
    THEN out = Ok
    ELSE /\ out.kind = "InvalidEnumValue"
         /\ out.value = ss[CHOOSE n \in DOMAIN ss :
                              /\ ss[n] \notin Literals(enum)
                              /\ \A h \in 1..(n - 1) : ss[h] \in Literals(enum)]
         /\ out.name = named

\* C5 (amended): a string checked against an enum, directly, as the value of a
\* field of the enum's type or as an element of an array field of it, is
\* accepted if and only if it is a literal of the enum; any other string fails
\* with InvalidEnumValue, which names the offending string and the enum by its
\* short name (VehicleType), neither by its qualified name nor by the field.
C5_EnumMembership ==
    EnumChecked # "" =>
        /\ EnumOutcome(EnumStrings, EnumChecked, StaticDecl(EnumChecked).short, call.out)
        /\ FieldCall => call.out.name # call.thing.field.name

\* an array field of an enum, checked with a literal followed by another string
C5_Witness ==
    /\ EnumChecked = "org.acme.l1.VehicleType"
    /\ FieldCall /\ call.thing.field.name = "vehicleTypes"
    /\ EnumStrings = <<"CAR", "1">>
    /\ call.out.kind = "InvalidEnumValue"
    /\ call.out.value = "1"
    /\ call.out.name = "VehicleType"

\* C5 as stated: the violation names the enum by its qualified name
C5_Original ==
    EnumChecked # "" =>
        /\ EnumOutcome(EnumStrings, EnumChecked, EnumChecked, call.out)
        /\ FieldCall => call.out.name # call.thing.field.name

\* the last call checked a value that is present and not an array against an
\* array field
NonArrayForArray ==
    /\ FieldCall
    /\ call.thing.field.isArray
    /\ call.before.k \notin {"array", "undefined"}

\* C6 (amended): a present value that is not an array, checked against an array
\* field, is always rejected, and the violation names the expected type as
\* "<Type>[]"; it is a TypeMismatch for a field that is not a relationship and
\* a RelationshipTypeMismatch (the value's type "is not derived from
\* <Type>[]") for an array of relationships.
C6_NonArray ==
    NonArrayForArray =>
        /\ call.out.expected = call.thing.field.type \o "[]"
        /\ call.out.kind = IF call.thing.field.isRelationship
                           THEN "RelationshipTypeMismatch" ELSE "TypeMismatch"

\* a single relationship to a Person, checked against owners, -->Person[]
C6_Witness ==
    /\ NonArrayForArray
    /\ call.thing.field.name = "owners"
    /\ call.before = newRelationship(Person, "DAN")
    /\ call.out.kind = "RelationshipTypeMismatch"
    /\ call.out.actual = Person
    /\ call.out.expected = "org.acme.l1.Person[]"

\* C6 as stated: the violation is a TypeMismatch for every array field
C6_Original ==
    NonArrayForArray =>
        /\ call.out.expected = call.thing.field.type \o "[]"
        /\ call.out.kind = "TypeMismatch"

\* the last call checked a Resource against a relationship field
ResourceForRelationship ==
    /\ FieldCall
    /\ call.thing.field.isRelationship
    /\ ~call.thing.field.isArray
    /\ call.before.k = "Resource"

\* C7: a Resource given as the value of a relationship field is rejected with
\* a relationship mismatch ('Expected a "Relationship"') when neither
\* convertResourcesToRelationships nor permitResourcesForRelationships is set,
\* and is accepted when one of them is set and its type is the declared type or
\* derives from it.
C7_ResourceForRelationship ==
    ResourceForRelationship =>
        IF ~options.convertResourcesToRelationships /\ ~options.permitResourcesForRelationships
        THEN /\ call.out.kind = "NotARelationship"
             /\ call.out.expected = "Relationship"
        ELSE DerivedFrom(call.before.type, call.thing.field.type)
                 /\ ChainPresent(call.before.type) => call.out = Ok

\* an Employee resource is accepted for owner, -->Person, under
\* permitResourcesForRelationships alone
C7_Witness ==
    /\ ResourceForRelationship
    /\ call.thing.field.name = "owner"
    /\ call.before.type = Employee
    /\ options.permitResourcesForRelationships
    /\ ~options.convertResourcesToRelationships
    /\ call.out = Ok

\* the name of the identifier field of the class of an identifiable value
IdFieldOf(v) == StaticDecl(v.type).idField

\* $identifier of v is not empty and is the value of its identifier field
ShadowTracksField(v) ==
    /\ v.identifier # ""
    /\ Get(v, IdFieldOf(v)) = Str(v.identifier)

\* the last call was a class declaration check of a Resource that succeeded
CheckedResource == ClassCall /\ call.before.k = "Resource" /\ call.out = Ok

\* C8: after a successful class declaration check of an identifiable value,
\* its $identifier is not empty and equals the value of its identifier field,
\* and so for an identifiable value embedded in it; a value that came with an
\* empty $identifier and an identifier leaves with $identifier set to that
\* identifier.
C8_ShadowTracksField ==
    CheckedResource =>
        /\ ShadowTracksField(call.after)
        /\ Get(call.after, "parked").k = "Resource" =>
               ShadowTracksField(Get(call.after, "parked"))
        /\ ~IsEmpty(Get(call.before, IdFieldOf(call.before))) =>
               call.after.identifier = Get(call.before, IdFieldOf(call.before)).s

\* a Car that came with $identifier = '' and the identifier 'foo' leaves with
\* $identifier = 'foo'
C8_Witness ==
    /\ CheckedResource
    /\ call.before.type = Car
    /\ call.before.identifier = ""
    /\ Get(call.before, IdFieldOf(call.before)) = Str("foo")
    /\ call.after.identifier = "foo"

\* the last call validated again, against the same declaration, the Resource
\* that the call before it had validated with success
ValidatedAgain ==
    /\ ClassCall
    /\ prev.thing = call.thing
    /\ prev.before.k = "Resource"
    /\ prev.out = Ok
    /\ call.before = prev.after

\* C9: a second validation of an identifiable value, directly after a first
\* one that succeeded, succeeds and leaves the identifier field and $identifier
\* as the first one left them; and no validation, successful or not, leaves
\* empty a $identifier that was not empty.
C9_Idempotent ==
    /\ ValidatedAgain =>
           /\ call.out = Ok
           /\ call.after.identifier = prev.after.identifier
           /\ Get(call.after, IdFieldOf(call.after)) = Get(prev.after, IdFieldOf(prev.after))
           /\ call.after = call.before
    /\ ClassCall /\ call.before.k = "Resource" /\ call.before.identifier # "" =>
           call.after.identifier # ""

\* the first validation set $identifier from the identifier, the second one
\* leaves both as they are
C9_Witness ==
    /\ ValidatedAgain
    /\ prev.before.identifier = ""
    /\ prev.after.identifier = "foo"
    /\ call.out = Ok
    /\ call.after.identifier = "foo"
    /\ Get(call.after, IdFieldOf(call.after)) = Str("foo")

\* the last call was a class declaration check of a Resource that reached the
\* identifier check: its class is resolved and not abstract, and it carries
\* no undeclared key
IdentifierChecked ==
    /\ ClassCall
    /\ Checkable(call.before)
    /\ call.before.k = "Resource"
    /\ UndeclaredOf(call.before) = {}

\* C10: when both the identifier field and $identifier of an identifiable
\* value are empty or absent, its class declaration check fails with
\* EmptyIdentifier, however valid its other fields are; when only the
\* identifier field is empty, EmptyIdentifier is not raised and the identifier
\* field takes the value of $identifier.
C10_EmptyIdentifier ==
    IdentifierChecked /\ IsEmpty(Get(call.before, IdFieldOf(call.before))) =>
        IF call.before.identifier = ""
        THEN call.out.kind = "EmptyIdentifier"
        ELSE /\ call.out.kind # "EmptyIdentifier"
             /\ Get(call.after, IdFieldOf(call.after)) = Str(call.before.identifier)

\* a Car without its identifier field, with $identifier = 'foo' and its other
\* fields set, passes and leaves with the identifier 'foo'
C10_Witness ==
    /\ IdentifierChecked
    /\ call.before.type = Car
    /\ Get(call.before, IdFieldOf(call.before)) = Undefined
    /\ call.before.identifier = "foo"
    /\ call.out = Ok
    /\ Get(call.after, IdFieldOf(call.after)) = Str("foo")

\* the fields of a class in the order they are walked: its own, as declared,
\* then those of its super types, as the model files are written
RECURSIVE FlattenedOrder(_)
FlattenedOrder(type) ==
    IF StaticDecl(type).super = NoSuper THEN StaticDecl(type).own
    ELSE StaticDecl(type).own \o FlattenedOrder(StaticDecl(type).super)

\* the value as the walk over its fields finds it, and the parameters of the walk
Walked(v) == IF v.k = "Resource" THEN NormalizeIdentifier(v, IdFieldOf(v)) ELSE v
WalkParameters(v) ==
    IF v.k = "Resource" THEN Identified(Parameters(call.root), Walked(v))
    ELSE Parameters(call.root)

\* the outcome of the check of one field of v, taken alone
FieldOutcome(v, f) ==
    visit(FieldThing(v.type, f), Get(Walked(v), f.name), WalkParameters(v)).out

\* field n is the first in the order fs whose check fails
FirstFailingField(v, fs, n) ==
    /\ FieldOutcome(v, fs[n]) # Ok
    /\ \A h \in 1..(n - 1) : FieldOutcome(v, fs[h]) = Ok

\* the last call was a class declaration check that reached the walk over the fields
WalkReached ==
    /\ ClassCall
    /\ Checkable(call.before)
    /\ UndeclaredOf(call.before) = {}
    /\ call.before.k = "Resource" =>
           ~(IsEmpty(Get(call.before, IdFieldOf(call.before))) /\ call.before.identifier = "")

\* the last call walked the elements of an array given for an array field
ArrayWalked ==
    /\ FieldCall
    /\ call.thing.field.isArray
    /\ call.before.k = "array"
    /\ call.thing.field.isPrimitive \/ Present(call.thing.field.type)

\* the outcome of the check of one element of an array, taken alone: apart
\* from the expected type it is that of a field of the element type
ElementOutcome(f, v) ==
    visit(FieldThing(call.thing.name, [f EXCEPT !.isArray = FALSE]), v,
          Parameters(call.root)).out

SameButExpected(out, alone) == [out EXCEPT !.expected = ""] = [alone EXCEPT !.expected = ""]

FirstFailingElement(f, items, n) ==
    /\ ElementOutcome(f, items[n]) # Ok
    /\ \A h \in 1..(n - 1) : ElementOutcome(f, items[h]) = Ok

\* C11: validation stops at the first failing check.  The fields of a class
\* are checked in declaration order, own fields before inherited ones, and the
\* elements of an array in index order; the one violation of a call is that of
\* the first field, or element, whose check fails, and no field or element
\* after it is visited (none of them is normalised); without a failing field
\* or element the call succeeds.
C11_FailFast ==
    /\ WalkReached =>
           /\ \A n \in DOMAIN FlattenedOrder(call.before.type) :
                  FirstFailingField(call.before, FlattenedOrder(call.before.type), n) =>
                      /\ call.out = FieldOutcome(call.before,
                                                 FlattenedOrder(call.before.type)[n])
                      /\ \A j \in (n + 1)..Len(FlattenedOrder(call.before.type)) :
                             Get(call.after, FlattenedOrder(call.before.type)[j].name)
                                 = Get(Walked(call.before),
                                       FlattenedOrder(call.before.type)[j].name)
           /\ (\A n \in DOMAIN FlattenedOrder(call.before.type) :
                   FieldOutcome(call.before, FlattenedOrder(call.before.type)[n]) = Ok)
                  => call.out = Ok
    /\ ArrayWalked =>
           /\ \A n \in DOMAIN call.before.items :
                  FirstFailingElement(call.thing.field, call.before.items, n) =>
                      /\ SameButExpected(call.out,
                                         ElementOutcome(call.thing.field, call.before.items[n]))
                      /\ \A j \in (n + 1)..Len(call.before.items) :
                             call.after.items[j] = call.before.items[j]
           /\ (\A n \in DOMAIN call.before.items :
                   ElementOutcome(call.thing.field, call.before.items[n]) = Ok)
                  => call.out = Ok

\* a Garage whose kind is no literal and whose parked Car has an empty
\* $identifier: the violation is that of kind, and parked is left as it came
C11_Witness ==
    /\ WalkReached
    /\ call.before.type = Garage
    /\ Get(call.before, "kind") = Str("1")
    /\ Get(call.before, "parked") = setShadow(ValidCar, "")
    /\ call.out.kind = "InvalidEnumValue"
    /\ Get(call.after, "parked") = setShadow(ValidCar, "")

\* the last call checked an absent value against a field
AbsentForField == FieldCall /\ call.before = Undefined

\* the fields of v, in the order fs, that are absent from it
AbsentFields(v, fs) == {fs[n] : n \in {h \in DOMAIN fs : Get(Walked(v), fs[h].name) = Undefined}}

\* C12: an absent value is accepted for a field if and only if the field is
\* optional; for a field that is not optional the check fails with a
\* TypeMismatch that renders the value as "undefined" and names the field and
\* its declared type.  A class declaration check that succeeds has left no
\* field absent that is not optional.
C12_AbsentIffOptional ==
    /\ AbsentForField =>
           IF call.thing.field.isOptional THEN call.out = Ok
           ELSE /\ call.out.kind = "TypeMismatch"
                /\ call.out.value = "undefined"
                /\ call.out.actual = "undefined"
                /\ call.out.name = call.thing.field.name
                /\ call.out.expected = expectedType(call.thing.field)
    /\ WalkReached /\ call.out = Ok =>
           \A f \in AbsentFields(call.before, FlattenedOrder(call.before.type)) : f.isOptional

\* model, a String that is not optional, checked without a value
C12_Witness ==
    /\ AbsentForField
    /\ call.thing.field.name = "model"
    /\ ~call.thing.field.isOptional
    /\ call.out.kind = "TypeMismatch"
    /\ call.out.value = "undefined"
    /\ call.out.expected = "String"

\* the violations whose message shows the identifier of an instance
RootedKinds ==
    {"NotAResourceOrConcept", "UndeclaredProperty", "EmptyIdentifier", "TypeMismatch",
     "InvalidEnumValue", "RelationshipTypeMismatch"}

\* the last call raised a violation in the fields of a Resource it was given,
\* or in a value embedded in them
RaisedInFields ==
    /\ WalkReached
    /\ call.before.k = "Resource"
    /\ call.out.kind \in RootedKinds \ {"UndeclaredProperty"}

NotAnInstance == ClassCall /\ call.before.k \notin {"Resource", "Concept"}

\* C14: the check of a class declaration D against a value that is neither a
\* Concept nor a Resource (a primitive, an array, a Relationship) fails with
\* NotAResourceOrConcept, which names D by its qualified name, the root
\* identifier and the value; no type is resolved first, so this holds for a
\* Relationship whose type cannot be resolved, and the value is left as it is.
C14_NotAResourceOrConcept ==
    NotAnInstance =>
        /\ call.out.kind = "NotAResourceOrConcept"
        /\ call.out.name = call.thing.name
        /\ call.out.root = call.root
        /\ call.out.value = render(call.before)
        /\ call.after = call.before

\* a Relationship to a Car, given to Vehicle after org.acme.l3 was deleted
C14_Witness ==
    /\ NotAnInstance
    /\ call.before.k = "Relationship"
    /\ call.before.type = Car
    /\ ~Present(Car)
    /\ call.thing.name = Vehicle
    /\ call.out.kind = "NotAResourceOrConcept"
    /\ call.out.name = Vehicle

\* the last call gave a class declaration a Concept or a Resource
InstanceChecked == ClassCall /\ call.before.k \in {"Resource", "Concept"}

\* some field of v would fail its check, or is absent though not optional
SomeFieldFails(v) ==
    \E n \in DOMAIN FlattenedOrder(v.type) : FieldOutcome(v, FlattenedOrder(v.type)[n]) # Ok

\* both the identifier field and $identifier of the Resource v are empty
NoIdentifier(v) ==
    v.k = "Resource" /\ IsEmpty(Get(v, IdFieldOf(v))) /\ v.identifier = ""

\* C15: a class declaration check runs its checks in one order, and the first
\* that fails is the one reported: the type of the value is resolved first
\* (TypeNotFound for the type, whatever else is wrong), then the resolved
\* class must not be abstract (AbstractInstantiation, also with undeclared
\* keys or missing fields), then its super types are resolved, then no key
\* may be undeclared (UndeclaredProperty, also with an empty identifier or
\* with missing or ill-typed fields), then the identifier must not be empty
\* (EmptyIdentifier, also with failing fields), and only then the fields are
\* checked.
C15_CheckOrder ==
    InstanceChecked =>
        IF ~Present(call.before.type)
        THEN call.out.kind = "TypeNotFound" /\ call.out.name = call.before.type
        ELSE IF IsAbstract(call.before.type)
        THEN call.out.kind = "AbstractInstantiation"
        ELSE IF ~ChainPresent(call.before.type)
        THEN call.out.kind = "TypeNotFound" /\ call.out.name \in Ancestors(call.before.type)
        ELSE IF UndeclaredOf(call.before) # {}
        THEN call.out.kind = "UndeclaredProperty"
        ELSE IF NoIdentifier(call.before)
        THEN call.out.kind = "EmptyIdentifier"
        ELSE (call.out = Ok) = ~SomeFieldFails(call.before)

\* a Car with the undeclared key foo, an empty identifier and its required
\* fields missing: the undeclared key is what is reported
C15_Witness ==
    /\ InstanceChecked
    /\ call.before.type = Car
    /\ Checkable(call.before)
    /\ UndeclaredOf(call.before) = {"foo"}
    /\ NoIdentifier(call.before)
    /\ Get(call.before, "model") = Undefined
    /\ call.out.kind = "UndeclaredProperty"
    /\ call.out.name = "foo"

\* a value without the identifier field and $identifier of the Resources in it
RECURSIVE Erased(_)
Erased(v) ==
    IF v.k = "array" THEN [v EXCEPT !.items = [n \in DOMAIN v.items |-> Erased(v.items[n])]]
    ELSE IF v.k \in {"Resource", "Concept"}
    THEN [v EXCEPT !.identifier = "",
                   !.props = [n \in DOMAIN SelectSeq(v.props, LAMBDA q : q.name # IdFieldOf(v)) |->
                                 P(SelectSeq(v.props, LAMBDA q : q.name # IdFieldOf(v))[n].name,
                                   Erased(SelectSeq(v.props,
                                                    LAMBDA q : q.name # IdFieldOf(v))[n].val))]]
    ELSE v

\* C16: a call of the validator, whether it succeeds or fails, leaves the
\* model files and the options as they are, and leaves the value as it came
\* apart from the identifier field and $identifier of the Resources in it.
C16_Frame ==
    [][ncalls' # ncalls =>
           /\ modelFiles' = modelFiles
           /\ carAbstract' = carAbstract
           /\ options' = options
           /\ stack' = call'.after
           /\ Erased(call'.after) = Erased(call'.before)]_vars

\* a Car came with $identifier = '' and left with $identifier = 'foo' and
\* every other property as it was, under an option that was set before
C16_Witness ==
    /\ ClassCall
    /\ options.convertResourcesToRelationships
    /\ call.before.k = "Resource"
    /\ call.before.identifier = ""
    /\ call.after.identifier = "foo"
    /\ call.after # call.before
    /\ call.after.props = call.before.props

(***************************************************************************)
(* Properties of the class declaration comparers.                          *)
(***************************************************************************)
\* both comparers were given the pair
BothRan == ran = Range(classDeclarationComparerFactories)

\* C17: once both class declaration comparers were given a pair (a, b) of
\* optional declarations, exactly one report was made when exactly one of
\* them is present: key "<type>-added" on element b when only b is present,
\* key "<type>-removed" on element a when only a is present; no report was
\* made when both or neither are present.  For the six types the default
\* rules rank the added key MINOR and the removed key MAJOR, so every key
\* reported has a rule and a removal ranks above an addition.
C17_Comparers ==
    /\ BothRan =>
           IF pair.a = NoDeclaration /\ pair.b # NoDeclaration
           THEN /\ Len(reports) = 1
                /\ reports[1].key = pair.b.type \o "-added"
                /\ reports[1].element = pair.b
                /\ rules[reports[1].key] = MINOR
           ELSE IF pair.a # NoDeclaration /\ pair.b = NoDeclaration
           THEN /\ Len(reports) = 1
                /\ reports[1].key = pair.a.type \o "-removed"
                /\ reports[1].element = pair.a
                /\ rules[reports[1].key] = MAJOR
           ELSE reports = <<>>
    /\ \A n \in DOMAIN reports : reports[n].key \in DOMAIN rules
    /\ \A t \in DeclarationTypes :
           /\ rules[t \o "-added"] = MINOR
           /\ rules[t \o "-removed"] = MAJOR
           /\ rules[t \o "-removed"] > rules[t \o "-added"]

\* the asset Car is in the first model file only: one report, asset-removed, on it
C17_Witness ==
    /\ BothRan
    /\ pair.a = ClassDeclaration("asset", "Car")
    /\ pair.b = NoDeclaration
    /\ Len(reports) = 1
    /\ reports[1].key = "asset-removed"
    /\ reports[1].message = "The asset \"Car\" was removed"
    /\ reports[1].element = pair.a
    /\ rules[reports[1].key] = MAJOR
====
